---- MODULE Spec2Model ----
(***************************************************************************)
(* Model of the dr-video ingestion function app                            *)
(* (src/function_app/function_app.py, src/function_app/create_index.py).   *)
(*                                                                         *)
(* Part I   : Python values, strings as sequences of characters.           *)
(* Part II  : the insights mapper (_time_to_seconds,                       *)
(*            _extract_transcript_entries, build_search_document).         *)
(* Part III : the blob-triggered pipeline process_video_blob, run by       *)
(*            several concurrent invocations that share the temporary      *)
(*            directory and the search index.                              *)
(* Part IV  : the properties.                                              *)
(***************************************************************************)
EXTENDS Integers, Sequences, FiniteSets, TLC

(***************************************************************************)
(* Part I.  Python values.                                                 *)
(*                                                                         *)
(* A JSON member is a record [k, v]: k = "absent" (the key is not in the   *)
(* dict), k = "null" (the key maps to None) or k = "val" (it maps to v).   *)
(* v always has the type of the member, so that values stay comparable.    *)
(***************************************************************************)
Absent(d) == [k |-> "absent", v |-> d]
Null(d) == [k |-> "null", v |-> d]
Val(x) == [k |-> "val", v |-> x]

\* dict.get(key): None when the key is absent.
Get(f) == IF f.k = "absent" THEN Null(f.v) ELSE f

\* dict.get(key, default): the default only when the key is absent; a key that
\* maps to None yields None.
GetD(f, d) == IF f.k = "absent" THEN Val(d) ELSE f

IsNone(x) == x.k # "val"

\* Truthiness of an optional list or string (None and the empty one are falsy).
TruthySeq(x) == x.k = "val" /\ Len(x.v) > 0

\* Truthiness of an optional number (None and 0 are falsy).
TruthyNum(x) == x.k = "val" /\ x.v # 0

\* A function's outcome: a returned value or a raised exception.
Return(x) == [raised |-> FALSE, v |-> x]
Raise(d) == [raised |-> TRUE, v |-> d]

RECURSIVE SeqsUpTo(_, _)
\* The sequences over S of length at most n.
SeqsUpTo(S, n) ==
  IF n = 0 THEN {<<>>}
  ELSE LET shorter == SeqsUpTo(S, n - 1)
       IN shorter \cup {Append(s, x) : s \in shorter, x \in S}

(***************************************************************************)
(* Strings are sequences of one-character strings.                         *)
(***************************************************************************)
IsSpace(c) == c = " "

RECURSIVE LStrip(_)
LStrip(s) == IF s # <<>> /\ IsSpace(Head(s)) THEN LStrip(Tail(s)) ELSE s

RECURSIVE RStrip(_)
RStrip(s) ==
  IF s # <<>> /\ IsSpace(s[Len(s)]) THEN RStrip(SubSeq(s, 1, Len(s) - 1)) ELSE s

\* str.strip()
Strip(s) == RStrip(LStrip(s))

RECURSIVE Join(_, _)
\* sep.join(parts)
Join(sep, parts) ==
  IF parts = <<>> THEN <<>>
  ELSE IF Len(parts) = 1 THEN parts[1]
  ELSE parts[1] \o sep \o Join(sep, Tail(parts))

RECURSIVE Split(_, _)
\* s.split(sep) for a one-character separator: always at least one part.
Split(s, sep) ==
  IF \A i \in 1..Len(s) : s[i] # sep THEN <<s>>
  ELSE LET i == CHOOSE j \in 1..Len(s) :
                  s[j] = sep /\ \A m \in 1..(j - 1) : s[m] # sep
       IN <<SubSeq(s, 1, i - 1)>> \o Split(SubSeq(s, i + 1, Len(s)), sep)

\* s.rfind(c): the last position of c (1-based), 0 when there is none.
RFind(s, c) ==
  IF \E i \in 1..Len(s) : s[i] = c
  THEN CHOOSE i \in 1..Len(s) : s[i] = c /\ \A j \in (i + 1)..Len(s) : s[j] # c
  ELSE 0

UpperLetters ==
  <<"A", "B", "C", "D", "E", "F", "G", "H", "I", "J", "K", "L", "M",
    "N", "O", "P", "Q", "R", "S", "T", "U", "V", "W", "X", "Y", "Z">>
LowerLetters ==
  <<"a", "b", "c", "d", "e", "f", "g", "h", "i", "j", "k", "l", "m",
    "n", "o", "p", "q", "r", "s", "t", "u", "v", "w", "x", "y", "z">>

LowerChar(c) ==
  IF \E i \in 1..26 : UpperLetters[i] = c
  THEN LowerLetters[CHOOSE i \in 1..26 : UpperLetters[i] = c]
  ELSE c

\* str.lower()
Lower(s) == [i \in 1..Len(s) |-> LowerChar(s[i])]

(***************************************************************************)
(* Part II.  The insights mapper.                                          *)
(*                                                                         *)
(* A float is an integer number of milliseconds, exact for the decimal     *)
(* strings with at most three fractional digits that the model feeds in.   *)
(***************************************************************************)
Digits == <<"0", "1", "2", "3", "4", "5", "6", "7", "8", "9">>

IsDigit(c) == \E i \in 1..10 : Digits[i] = c

DigitVal(c) == (CHOOSE i \in 1..10 : Digits[i] = c) - 1

RECURSIVE DigitsVal(_)
\* The value of a string of digits (0 for the empty one).
DigitsVal(s) ==
  IF s = <<>> THEN 0
  ELSE DigitsVal(SubSeq(s, 1, Len(s) - 1)) * 10 + DigitVal(s[Len(s)])

\* The fraction .ddd in milliseconds (digits after the third are dropped).
FracMillis(s) ==
  LET d(i) == IF i <= Len(s) THEN DigitVal(s[i]) ELSE 0
  IN d(1) * 100 + d(2) * 10 + d(3)

\* The digits around the point of an unsigned decimal string.
IntPart(body) ==
  IF RFind(body, ".") = 0 THEN body ELSE SubSeq(body, 1, RFind(body, ".") - 1)
FracPart(body) ==
  IF RFind(body, ".") = 0 THEN <<>> ELSE SubSeq(body, RFind(body, ".") + 1, Len(body))

\* An unsigned decimal: digits with at most one point and at least one digit.
ParseUnsigned(ip, fp) ==
  IF /\ \A i \in 1..Len(ip) : IsDigit(ip[i])
     /\ \A i \in 1..Len(fp) : IsDigit(fp[i])
     /\ Len(ip) + Len(fp) > 0
  THEN [ok |-> TRUE, v |-> DigitsVal(ip) * 1000 + FracMillis(fp)]
  ELSE [ok |-> FALSE, v |-> 0]

Negate(x) == [ok |-> x.ok, v |-> 0 - x.v]

ParseSigned(s) ==
  IF s # <<>> /\ s[1] = "-"
  THEN Negate(ParseUnsigned(IntPart(Tail(s)), FracPart(Tail(s))))
  ELSE IF s # <<>> /\ s[1] = "+"
  THEN ParseUnsigned(IntPart(Tail(s)), FracPart(Tail(s)))
  ELSE ParseUnsigned(IntPart(s), FracPart(s))

\* float(p) on a decimal string: surrounding whitespace is ignored, one sign is
\* allowed, then digits with at most one point and at least one digit.  Anything
\* else raises ValueError (ok = FALSE).
ParseFloat(p) == ParseSigned(Strip(p))

\* Lines 102-105: the parts are padded on the left to three and the LAST three
\* are used.
HoursMinutesSeconds(parts) ==
  LET n == Len(parts)
      part(i) == IF i >= 1 THEN parts[i].v ELSE 0
  IN IF \E i \in 1..n : ~parts[i].ok THEN Null(0)
     ELSE Val(part(n - 2) * 3600 + part(n - 1) * 60 + part(n))

\* Lines 100-101: [float(p) for p in str(value).split(":")]
FloatParts(parts) == [i \in 1..Len(parts) |-> ParseFloat(parts[i])]

\* _time_to_seconds(value): value is an optional string, the result an optional
\* float; any exception yields None.
_time_to_seconds(value) ==
  IF IsNone(value) THEN Null(0)
  ELSE HoursMinutesSeconds(FloatParts(Split(value.v, ":")))

\* a or b on optional strings: a when it is truthy, else b.
OrStr(a, b) == IF TruthySeq(a) THEN a ELSE b

\* An optional member of the output entry: present only when not None.
OutField(x) == IF IsNone(x) THEN Absent(x.v) ELSE x

\* One iteration of the loop of _extract_transcript_entries for an entry that
\* carries text (lines 123-148).
TranscriptEntry(entry) ==
  LET instances == IF TruthySeq(Get(entry.instances))
                   THEN entry.instances.v ELSE <<>>
      start == IF instances # <<>>
               THEN OrStr(Get(instances[1].start), Get(instances[1].adjustedStart))
               ELSE Null(<<>>)
      end == IF instances # <<>>
             THEN OrStr(Get(instances[1].end), Get(instances[1].adjustedEnd))
             ELSE Null(<<>>)
  IN [text |-> entry.text.v,
      startSeconds |-> OutField(_time_to_seconds(start)),
      endSeconds |-> OutField(_time_to_seconds(end)),
      speakerId |-> OutField(Get(entry.speakerId)),
      confidence |-> OutField(Get(entry.confidence))]

RECURSIVE ExtractLoop(_)
\* The for loop of _extract_transcript_entries: entries without text are skipped.
ExtractLoop(data) ==
  IF data = <<>> THEN <<>>
  ELSE IF ~TruthySeq(Get(Head(data).text)) THEN ExtractLoop(Tail(data))
  ELSE <<TranscriptEntry(Head(data))>> \o ExtractLoop(Tail(data))

\* A dict is truthy when it is not None and has at least one key.
TruthyInsights(x) ==
  x.k = "val" /\ (x.v.transcript.k # "absent" \/ x.v.speakers.k # "absent")

\* _extract_transcript_entries(index_json).  Iterating a transcript that is
\* None raises TypeError.
_extract_transcript_entries(index_json) ==
  LET videos == IF TruthySeq(Get(index_json.videos))
                THEN index_json.videos.v ELSE <<>>
  IN IF videos # <<>> /\ TruthyInsights(Get(videos[1].insights))
     THEN LET transcript_data == GetD(videos[1].insights.v.transcript, <<>>)
          IN IF IsNone(transcript_data) THEN Raise(<<>>)
             ELSE Return(ExtractLoop(transcript_data.v))
     ELSE Return(<<>>)

RECURSIVE _collect_names(_)
\* _collect_names(items): the truthy names, in order.
_collect_names(items) ==
  IF items = <<>> THEN <<>>
  ELSE IF TruthySeq(Get(Head(items).name))
       THEN <<Head(items).name.v>> \o _collect_names(Tail(items))
       ELSE _collect_names(Tail(items))

EmptyInsights == [transcript |-> Absent(<<>>), speakers |-> Absent(<<>>)]
EmptySummarized == [keywords |-> Absent(<<>>), duration |-> Absent([seconds |-> Absent(0)])]
EmptyDuration == [seconds |-> Absent(0)]

NoDocument ==
  [id |-> Null(""), videoId |-> Null(""), name |-> Null(""),
   transcript |-> Null(<<>>), transcriptEntries |-> <<>>, keywords |-> <<>>,
   duration |-> Null(0), speakerCount |-> 0, indexedAt |-> 0]

\* Lines 170-219 of build_search_document, given what line 169 extracted.  The
\* statements are evaluated in source order; x.get(...) on an x that is None
\* raises AttributeError.  The topics, faces and labels lists are read from
\* summarized exactly as keywords is, and ocr and language from video_insights
\* as speakers is; they are left out of the document here.
BuildFrom(index_json, now, transcript_entries, video_insights, summarized) ==
  LET joined == Strip(Join(<<" ">>,
                  [i \in 1..Len(transcript_entries) |-> transcript_entries[i].text]))
      keywordItems == GetD(summarized.v.keywords, <<>>)
      explicit == Get(index_json.durationInSeconds)
      nested == GetD(summarized.v.duration, EmptyDuration)
      speakers == GetD(video_insights.v.speakers, <<>>)
  IN IF IsNone(summarized) THEN Raise(NoDocument)                  \* line 173
     ELSE IF IsNone(video_insights) THEN Raise(NoDocument)         \* line 179
     ELSE IF ~TruthyNum(explicit) /\ IsNone(nested) THEN Raise(NoDocument) \* line 184
     ELSE Return([id |-> Get(index_json.id),
                  videoId |-> Get(index_json.id),
                  name |-> Get(index_json.name),
                  transcript |-> IF joined = <<>> THEN Null(<<>>) ELSE Val(joined),
                  transcriptEntries |-> transcript_entries,
                  keywords |-> Join(<<",", " ">>,
                                 _collect_names(IF TruthySeq(keywordItems)
                                                THEN keywordItems.v ELSE <<>>)),
                  duration |-> IF TruthyNum(explicit) THEN explicit
                               ELSE Get(nested.v.seconds),
                  speakerCount |-> IF TruthySeq(speakers) THEN Len(speakers.v) ELSE 0,
                  indexedAt |-> now])

\* Lines 164-165: videos[0].get("insights", {}) if videos else {}
VideoInsights(videos) ==
  IF TruthySeq(videos) THEN GetD(videos.v[1].insights, EmptyInsights)
  ELSE Val(EmptyInsights)

BuildWith(index_json, now, extracted) ==
  IF extracted.raised THEN Raise(NoDocument)                       \* line 169
  ELSE BuildFrom(index_json, now, extracted.v,
                 VideoInsights(GetD(index_json.videos, <<>>)),
                 GetD(index_json.summarizedInsights, EmptySummarized))

KeyedByName(built) == [built EXCEPT !.v.id = built.v.name]

build_search_document_KeyedByName(index_json, now) ==
  KeyedByName(BuildWith(index_json, now, _extract_transcript_entries(index_json)))

\* build_search_document(index_json), with datetime.now() passed as now.
build_search_document(index_json, now) ==
  BuildWith(index_json, now, _extract_transcript_entries(index_json))

(***************************************************************************)
(* The raw insights documents the mapper is applied to.                    *)
(***************************************************************************)
MaxEntries == 2

Texts == {<<>>, <<"a">>, <<" ", "b">>, <<" ">>}

T_0_00_01_0 == <<"0", ":", "0", "0", ":", "0", "1", ".", "0">>
T_0_00_02_5 == <<"0", ":", "0", "0", ":", "0", "2", ".", "5">>
T_0_02 == <<"0", ":", "0", "2">>
T_bad == <<"x">>

Instance1 ==
  [start |-> Val(T_0_00_01_0), adjustedStart |-> Absent(<<>>),
   end |-> Val(T_0_00_02_5), adjustedEnd |-> Absent(<<>>)]
Instance2 ==
  [start |-> Absent(<<>>), adjustedStart |-> Val(T_0_02),
   end |-> Val(T_bad), adjustedEnd |-> Val(T_0_00_02_5)]

TextMembers == {Absent(<<>>), Null(<<>>)} \cup {Val(t) : t \in Texts}

InstancesMembers ==
  {Absent(<<>>), Null(<<>>), Val(<<>>), Val(<<Instance1>>), Val(<<Instance2, Instance1>>)}

\* Every text with one instance, and every shape of instances under one text.
Entries ==
  {[text |-> t, instances |-> Val(<<Instance1>>),
    speakerId |-> Val(1), confidence |-> Absent(0)] : t \in TextMembers}
  \cup
  {[text |-> Val(<<"a">>), instances |-> i,
    speakerId |-> Absent(0), confidence |-> Val(9)] : i \in InstancesMembers}

TranscriptMembers ==
  {Absent(<<>>), Null(<<>>)} \cup {Val(t) : t \in SeqsUpTo(Entries, MaxEntries)}

\* The speakers of a video, each named by its id; the last list reports
\* speaker 1 twice.
SpeakersMembers == {Absent(<<>>), Val(<<1, 2>>), Val(<<1, 2, 1>>)}

InsightsMembers ==
  {Absent(EmptyInsights), Null(EmptyInsights), Val(EmptyInsights)}
  \cup {Val([transcript |-> t, speakers |-> sp]) :
          t \in TranscriptMembers, sp \in SpeakersMembers}

VideosMembers ==
  {Absent(<<>>), Null(<<>>), Val(<<>>)}
  \cup {Val(<<[insights |-> i]>>) : i \in InsightsMembers}

Keywords == <<[name |-> Val(<<"g">>)], [name |-> Absent(<<>>)], [name |-> Val(<<"i">>)]>>

SummarizedMembers ==
  {Absent(EmptySummarized), Null(EmptySummarized), Val(EmptySummarized)}
  \cup {Val([keywords |-> Val(Keywords), duration |-> d]) :
          d \in {Absent(EmptyDuration), Null(EmptyDuration), Val(EmptyDuration),
                 Val([seconds |-> Val(120)])}}

DurationMembers == {Absent(0), Val(0), Val(90)}

IndexJsons ==
  [id : {Absent(""), Val("v1")},
   name : {Val("n1")},
   videos : VideosMembers,
   summarizedInsights : SummarizedMembers,
   durationInSeconds : DurationMembers]

(***************************************************************************)
(* Part III.  The pipeline: process_video_blob.                            *)
(***************************************************************************)
\* Concurrent invocations of the blob trigger.
Runs == {1, 2}

VIDEO_EXTENSIONS ==
  {<<".", "m", "p", "4">>, <<".", "a", "v", "i">>, <<".", "m", "o", "v">>,
   <<".", "w", "m", "v">>, <<".", "m", "k", "v">>, <<".", "w", "e", "b", "m">>,
   <<".", "f", "l", "v">>}

\* The names of the triggering blobs: a/c.mp4, b/c.mp4, d.MOV, n.txt, .mp4, mp4
\* and the empty name.
BlobNames ==
  {<<"a", "/", "c", ".", "m", "p", "4">>, <<"b", "/", "c", ".", "m", "p", "4">>,
   <<"d", ".", "M", "O", "V">>, <<"n", ".", "t", "x", "t">>,
   <<".", "m", "p", "4">>, <<"m", "p", "4">>, <<>>}

\* blob.name.split("/")[-1] if blob.name else "unknown"
BlobName(name) ==
  IF name = <<>> THEN <<"u", "n", "k", "n", "o", "w", "n">>
  ELSE LET parts == Split(name, "/") IN parts[Len(parts)]

\* os.path.splitext(p)[1] for a p without a directory separator: the suffix from
\* the last dot, unless only dots precede it.
SplitExt(p) ==
  LET dotIndex == RFind(p, ".")
  IN IF dotIndex > 0 /\ \E i \in 1..(dotIndex - 1) : p[i] # "."
     THEN SubSeq(p, dotIndex, Len(p))
     ELSE <<>>

FileExt(name) == Lower(SplitExt(BlobName(name)))

IsVideo(name) == FileExt(name) \in VIDEO_EXTENSIONS

\* os.path.join(tempfile.gettempdir(), blob_name): the paths of the one
\* temporary directory are told apart by blob_name alone.
TempPath(name) == BlobName(name)

TempPaths == {TempPath(n) : n \in BlobNames}

\* The three functions above, tabulated over the triggers of the model.
VideoBlobNames == {n \in BlobNames : IsVideo(n)}
TempPathOf == [n \in BlobNames |-> TempPath(n)]

\* The insights documents get_video may return.
PipelineJson(id, name, summarized) ==
  [id |-> id, name |-> Val(name),
   videos |-> Val(<<[insights |->
                Val([transcript |-> Val(<<[text |-> Val(<<"a">>),
                                           instances |-> Val(<<Instance1>>),
                                           speakerId |-> Val(1),
                                           confidence |-> Absent(0)]>>),
                     speakers |-> Val(<<1>>)])]>>),
   summarizedInsights |-> summarized,
   durationInSeconds |-> Val(90)]

PipelineJsons ==
  {PipelineJson(Val("v1"), "n1", Val(EmptySummarized)),
   PipelineJson(Val("v1"), "n2", Val(EmptySummarized)),
   PipelineJson(Val("v2"), "n1", Val(EmptySummarized)),
   PipelineJson(Absent(""), "n1", Val(EmptySummarized)),
   PipelineJson(Val("v2"), "n2", Null(EmptySummarized))}

\* The external calls of one run, in source order.
CallOrder ==
  <<"open", "download_blob", "authenticate", "get_account", "file_upload",
    "remove", "wait_for_index", "get_video", "build_search_document",
    "SearchClient", "upload_documents">>

\* pollUntilTerminal(job, pollInterval, maxWait): the wait budget and the sleep
\* between two status checks.
MaxWait == 2
PollInterval == 1

\* build_search_document tabulated over what get_video may return and the
\* instants at which a run may map (the clock moves once per mapping).
Mapped ==
  [j \in PipelineJsons, now \in 0..Cardinality(Runs) |-> build_search_document(j, now)]

VARIABLES
  pc,            \* pc[r]: where run r stands in process_video_blob
  blob,          \* blob[r]: blob.name of run r's trigger
  outcome,       \* outcome[r]: "none", "skipped", "completed", "failed", "raised"
  path,          \* path[p]: the file linked at temporary path p (0: none), named
                 \*          by the run that created it
  fileData,      \* fileData[f]: whose bytes file f holds (0: empty)
  handle,        \* handle[r]: the file run r opened for writing (0: none)
  job,           \* job[r]: state of run r's indexing job, as the run knows it
  remote,        \* remote[r]: what the remote service reports for run r's job
  elapsed,       \* elapsed[r]: time run r has waited in wait_for_index
  result,        \* result[r]: what wait_for_index returned
  insights,      \* insights[r]: what get_video returned
  document,      \* document[r]: what build_search_document returned
  published,     \* published[r]: what upload_to_search_index returned
  index,         \* the documents of the search index
  clock,         \* datetime.now()
  searchConfigured, \* AZURE_SEARCH_ENDPOINT and AZURE_SEARCH_INDEX_NAME are set
  calls,         \* history: calls[r], the external calls run r made, with outcome
  foreign,       \* history: <<r, op>> when r did op on a file another run created
  publishes,     \* history: the documents upserted with success, in order
  mPc, mIn, mOut, \* the mapper applied on its own to one raw insights document
  ePc,           \* the transcript loop applied on its own to one entry
  tPc,           \* _time_to_seconds applied on its own to that entry's raw start
  eParts,        \* the colon-delimited components of the raw start (<<>>: none)
  eIn,           \* the transcript entry
  eOut,          \* what the loop appended for it
  tOut           \* what _time_to_seconds returned

pipeVars ==
  <<pc, blob, outcome, path, fileData, handle, job, remote, elapsed, result, insights,
    document, published, index, clock, searchConfigured, calls, foreign,
    publishes>>
mapVars == <<mPc, mIn, mOut>>
entryVars == <<ePc, tPc, eParts, eIn, eOut, tOut>>
vars == <<pipeVars, mapVars, entryVars>>

NoEntry ==
  [text |-> Absent(<<>>), instances |-> Absent(<<>>),
   speakerId |-> Absent(0), confidence |-> Absent(0)]

NoJson == PipelineJson(Absent(""), "n1", Val(EmptySummarized))

PipeInit ==
  /\ pc = [r \in Runs |-> "idle"]
  /\ blob = [r \in Runs |-> <<>>]
  /\ outcome = [r \in Runs |-> "none"]
  /\ path = [p \in TempPaths |-> 0]
  /\ fileData = [r \in Runs |-> 0]
  /\ handle = [r \in Runs |-> 0]
  /\ job = [r \in Runs |-> "None"]
  /\ remote = [r \in Runs |-> "None"]
  /\ elapsed = [r \in Runs |-> 0]
  /\ result = [r \in Runs |-> FALSE]
  /\ insights = [r \in Runs |-> NoJson]
  /\ document = [r \in Runs |-> NoDocument]
  /\ published = [r \in Runs |-> "none"]
  /\ index = {}
  /\ clock = 0
  /\ calls = [r \in Runs |-> <<>>]
  /\ foreign = {}
  /\ publishes = <<>>

MapIdle == mPc = "off" /\ mIn = NoJson /\ mOut = Raise(NoDocument)

EntryIdle ==
  /\ ePc = "off" /\ tPc = "off" /\ eParts = <<>>
  /\ eIn = NoEntry /\ eOut = <<>> /\ tOut = Null(0)

Init == PipeInit /\ searchConfigured \in BOOLEAN /\ MapIdle /\ EntryIdle

Called(r, op, ok) == calls' = [calls EXCEPT ![r] = Append(@, [op |-> op, ok |-> ok])]

\* An exception leaves process_video_blob: the run ends there.
Raised(r) ==
  /\ pc' = [pc EXCEPT ![r] = "done"]
  /\ outcome' = [outcome EXCEPT ![r] = "raised"]

\* Lines 259-271: the trigger fires; with the filter of line 269 on, a blob whose
\* extension is not a video extension is skipped.
TriggerFiltered(r, filter) ==
  /\ pc[r] = "idle"
  /\ \E name \in BlobNames :
       /\ blob' = [blob EXCEPT ![r] = name]
       /\ IF ~filter \/ name \in VideoBlobNames
          THEN pc' = [pc EXCEPT ![r] = "open"] /\ UNCHANGED outcome
          ELSE /\ pc' = [pc EXCEPT ![r] = "done"]
               /\ outcome' = [outcome EXCEPT ![r] = "skipped"]
  /\ UNCHANGED <<path, fileData, handle, job, elapsed, result, insights,
                 document, published, index, clock, searchConfigured, calls,
                 foreign, publishes, remote, mapVars, entryVars>>

Trigger_NoFilter(r) == TriggerFiltered(r, FALSE)

\* process_video_blob, lines 259-271.
Trigger(r) == TriggerFiltered(r, TRUE)

\* Line 286: open(temp_file_path, "wb") creates the file, or truncates the one
\* that is linked at the path.
OpenTemp(r) ==
  /\ pc[r] = "open"
  /\ LET p == TempPathOf[blob[r]]
         f == IF path[p] = 0 THEN r ELSE path[p]
     IN /\ path' = [path EXCEPT ![p] = f]
        /\ fileData' = [fileData EXCEPT ![f] = 0]
        /\ handle' = [handle EXCEPT ![r] = f]
        /\ foreign' = IF f # r THEN foreign \cup {<<r, "write">>} ELSE foreign
  /\ pc' = [pc EXCEPT ![r] = "download"]
  /\ Called(r, "open", TRUE)
  /\ UNCHANGED <<blob, outcome, job, elapsed, result, insights, document,
                 published, index, clock, searchConfigured, publishes, remote, mapVars, entryVars>>

\* Lines 287-288: download_blob().readall() is written through the open handle
\* (the last writer's bytes stand for the file's content); the with block closes
\* the file whether or not the download raised.
Download(r) ==
  /\ pc[r] = "download"
  /\ \E ok \in BOOLEAN :
       /\ Called(r, "download_blob", ok)
       /\ IF ok
          THEN /\ fileData' = [fileData EXCEPT ![handle[r]] = r]
               /\ foreign' = IF handle[r] # r
                             THEN foreign \cup {<<r, "write">>} ELSE foreign
               /\ pc' = [pc EXCEPT ![r] = "authenticate"]
               /\ UNCHANGED outcome
          ELSE /\ Raised(r)
               /\ UNCHANGED <<fileData, foreign>>
  /\ UNCHANGED <<blob, path, handle, job, elapsed, result, insights, document,
                 published, index, clock, searchConfigured, publishes, remote, mapVars, entryVars>>

\* A call that touches nothing here and either returns or raises.
PlainCall(r, at, op, next) ==
  /\ pc[r] = at
  /\ \E ok \in BOOLEAN :
       /\ Called(r, op, ok)
       /\ IF ok THEN pc' = [pc EXCEPT ![r] = next] /\ UNCHANGED outcome
          ELSE Raised(r)
  /\ UNCHANGED <<blob, path, fileData, handle, job, elapsed, result, insights,
                 document, published, index, clock, searchConfigured, foreign,
                 publishes, remote, mapVars, entryVars>>

\* Line 296: client.authenticate(consts_config)
Authenticate(r) == PlainCall(r, "authenticate", "authenticate", "get_account")

\* Line 297: client.get_account()
GetAccount(r) == PlainCall(r, "get_account", "get_account", "file_upload")

\* Line 303: client.file_upload(temp_file_path, blob_name, ExcludedAI) reads the
\* file linked at the path; it raises when there is none or the service
\* rejects the video.
FileUpload(r) ==
  /\ pc[r] = "file_upload"
  /\ LET f == path[TempPathOf[blob[r]]]
     IN \E ok \in {b \in BOOLEAN : f # 0 \/ ~b} :
          /\ Called(r, "file_upload", ok)
          /\ foreign' = IF f # 0 /\ f # r
                        THEN foreign \cup {<<r, "read">>} ELSE foreign
          /\ IF ok
             THEN /\ pc' = [pc EXCEPT ![r] = "remove"]
                  /\ job' = [job EXCEPT ![r] = "Submitted"]
                  /\ remote' = [remote EXCEPT ![r] = "Processing"]
                  /\ UNCHANGED outcome
             ELSE Raised(r) /\ UNCHANGED <<job, remote>>
  /\ UNCHANGED <<blob, path, fileData, handle, elapsed, result, insights,
                 document, published, index, clock, searchConfigured,
                 publishes, mapVars, entryVars>>

\* Line 306: os.remove(temp_file_path) unlinks whatever file is at the path and
\* raises FileNotFoundError when there is none; the run goes on at next.
RemoveTempThen(r, next) ==
  /\ pc[r] = "remove"
  /\ LET p == TempPathOf[blob[r]]
         f == path[p]
     IN IF f = 0
        THEN /\ Called(r, "remove", FALSE)
             /\ Raised(r)
             /\ UNCHANGED <<path, foreign>>
        ELSE /\ Called(r, "remove", TRUE)
             /\ path' = [path EXCEPT ![p] = 0]
             /\ foreign' = IF f # r THEN foreign \cup {<<r, "remove">>} ELSE foreign
             /\ pc' = [pc EXCEPT ![r] = next]
             /\ UNCHANGED outcome
  /\ UNCHANGED <<blob, fileData, handle, job, elapsed, result, insights,
                 document, published, index, clock, searchConfigured,
                 publishes, remote, mapVars, entryVars>>

RemoveTemp_SkipsPoll(r) == RemoveTempThen(r, "get_video")

\* Lines 306-311: the temporary file is removed, then the poll starts.
RemoveTemp(r) == RemoveTempThen(r, "wait")

\* The remote service finishes the job of run r, with success or not, at a time
\* of its own choosing, or never.
RemoteFinish(r) ==
  /\ remote[r] = "Processing"
  /\ pc[r] \in {"remove", "wait"}
  /\ \E state \in {"Processed", "Failed"} : remote' = [remote EXCEPT ![r] = state]
  /\ UNCHANGED <<pc, blob, outcome, path, fileData, handle, job, elapsed, result,
                 insights, document, published, index, clock, searchConfigured,
                 calls, foreign, publishes, mapVars, entryVars>>

\* Line 311: client.wait_for_index(video_id), one status check of its loop.  The
\* remote service reports the job running, completed or failed; a job still
\* running when the wait budget is used up is given up as TimedOut (with the
\* budget off it is polled for ever), otherwise the loop sleeps for the poll
\* interval, the time waited being counted up to the budget.  The call returns
\* whether the job ended in Processed.
PollWithin(r, budgeted) ==
  /\ pc[r] = "wait"
  /\ LET reported == remote[r]
         state == IF reported = "Processing" /\ budgeted /\ elapsed[r] >= MaxWait
                  THEN "TimedOut" ELSE reported
     IN /\ job' = [job EXCEPT ![r] = state]
        /\ IF state = "Processing"
           THEN /\ elapsed' = [elapsed EXCEPT ![r] =
                                IF @ >= MaxWait THEN @ ELSE @ + PollInterval]
                /\ UNCHANGED <<pc, result, calls>>
           ELSE /\ result' = [result EXCEPT ![r] = (state = "Processed")]
                /\ pc' = [pc EXCEPT ![r] = "branch"]
                /\ Called(r, "wait_for_index", TRUE)
                /\ UNCHANGED elapsed
  /\ UNCHANGED <<blob, outcome, path, fileData, handle, insights, document,
                 published, index, clock, searchConfigured, foreign,
                 publishes, remote, mapVars, entryVars>>

Poll_NoTimeout(r) == PollWithin(r, FALSE)

\* wait_for_index with its wait budget.
Poll(r) == PollWithin(r, TRUE)

\* Lines 313-323: if result: ... else: log the failure and return.
BranchOn(r, cond) ==
  /\ pc[r] = "branch"
  /\ IF cond
     THEN pc' = [pc EXCEPT ![r] = "get_video"] /\ UNCHANGED outcome
     ELSE /\ pc' = [pc EXCEPT ![r] = "done"]
          /\ outcome' = [outcome EXCEPT ![r] = "failed"]
  /\ UNCHANGED <<blob, path, fileData, handle, job, elapsed, result, insights,
                 document, published, index, clock, searchConfigured, calls,
                 foreign, publishes, remote, mapVars, entryVars>>

Branch_IgnoresResult(r) == BranchOn(r, TRUE)

\* Line 313: the branch is taken on what wait_for_index returned.
Branch(r) == BranchOn(r, result[r])

\* Line 317: insights = client.get_video(video_id)
GetVideo(r) ==
  /\ pc[r] = "get_video"
  /\ \/ \E j \in PipelineJsons :
          /\ insights' = [insights EXCEPT ![r] = j]
          /\ Called(r, "get_video", TRUE)
          /\ pc' = [pc EXCEPT ![r] = "publish"]
          /\ UNCHANGED outcome
     \/ /\ Called(r, "get_video", FALSE)
        /\ Raised(r)
        /\ UNCHANGED insights
  /\ UNCHANGED <<blob, path, fileData, handle, job, elapsed, result, document,
                 published, index, clock, searchConfigured, foreign,
                 publishes, remote, mapVars, entryVars>>

\* upload_to_search_index returns: process_video_blob ignores the value and
\* ends normally.
Returned(r, value) ==
  /\ published' = [published EXCEPT ![r] = IF value THEN "true" ELSE "false"]
  /\ pc' = [pc EXCEPT ![r] = "done"]
  /\ outcome' = [outcome EXCEPT ![r] = "completed"]

\* Lines 224-233 of upload_to_search_index: the configuration check, then
\* build_search_document inside the try block; the clock moves on after it.
BuildDocument(r) ==
  /\ pc[r] = "publish"
  /\ IF ~searchConfigured
     THEN Returned(r, FALSE) /\ UNCHANGED <<document, clock, calls>>
     ELSE LET built == Mapped[insights[r], clock]
          IN /\ Called(r, "build_search_document", ~built.raised)
             /\ clock' = clock + 1
             /\ IF built.raised
                THEN Returned(r, FALSE) /\ UNCHANGED document
                ELSE /\ document' = [document EXCEPT ![r] = built.v]
                     /\ pc' = [pc EXCEPT ![r] = "search_client"]
                     /\ UNCHANGED <<published, outcome>>
  /\ UNCHANGED <<blob, path, fileData, handle, job, elapsed, result, insights,
                 index, searchConfigured, foreign, publishes,
                 remote, mapVars, entryVars>>

\* Lines 236-240: SearchClient(...); an exception is caught at line 253.
NewSearchClient(r) ==
  /\ pc[r] = "search_client"
  /\ \E ok \in BOOLEAN :
       /\ Called(r, "SearchClient", ok)
       /\ IF ok
          THEN pc' = [pc EXCEPT ![r] = "upload_documents"]
               /\ UNCHANGED <<published, outcome>>
          ELSE Returned(r, FALSE)
  /\ UNCHANGED <<blob, path, fileData, handle, job, elapsed, result, insights,
                 document, index, clock, searchConfigured, foreign,
                 publishes, remote, mapVars, entryVars>>

\* The index's upload action on one document: the document replaces the one
\* with the same key ("id", create_index.py line 19).
Upsert(store, doc) == {d \in store : d.id # doc.id} \cup {doc}

\* Lines 242-255: search_client.upload_documents(documents=[document]).  The
\* service stores the document and reports it succeeded, or reports it failed,
\* or the call raises (caught at line 253); a document without a key is never
\* stored.  With catches off, the exception leaves upload_to_search_index.
UploadDocumentsCatching(r, catches) ==
  /\ pc[r] = "upload_documents"
  /\ LET doc == document[r]
     IN \E reply \in {"succeeded", "failed", "exception"} :
          /\ reply = "succeeded" => ~IsNone(doc.id)
          /\ Called(r, "upload_documents", reply = "succeeded")
          /\ IF reply = "succeeded"
             THEN /\ index' = Upsert(index, doc)
                  /\ publishes' = Append(publishes, doc)
             ELSE UNCHANGED <<index, publishes>>
          /\ IF reply = "exception" /\ ~catches
             THEN Raised(r) /\ UNCHANGED published
             ELSE Returned(r, reply = "succeeded")
  /\ UNCHANGED <<blob, path, fileData, handle, job, elapsed, result, insights,
                 document, clock, searchConfigured, foreign, remote, mapVars, entryVars>>

UploadDocuments_Propagates(r) == UploadDocumentsCatching(r, FALSE)

\* upload_documents inside the try block of lines 228-255.
UploadDocuments(r) == UploadDocumentsCatching(r, TRUE)

Step(r) ==
  \/ Trigger(r)
  \/ OpenTemp(r)
  \/ Download(r)
  \/ Authenticate(r)
  \/ GetAccount(r)
  \/ FileUpload(r)
  \/ RemoveTemp(r)
  \/ Poll(r)
  \/ Branch(r)
  \/ GetVideo(r)
  \/ BuildDocument(r)
  \/ NewSearchClient(r)
  \/ UploadDocuments(r)

Next == \E r \in Runs : Step(r) \/ RemoteFinish(r)

Spec == Init /\ [][Next]_vars

\* Every started invocation keeps running: the host does not abandon a run.
FairSpec == Spec /\ \A r \in Runs : WF_vars(Step(r))

(***************************************************************************)
(* The mapper on its own: one raw insights document, one application.      *)
(***************************************************************************)
MapInit ==
  /\ PipeInit
  /\ searchConfigured = TRUE
  /\ mPc = "input"
  /\ mIn \in IndexJsons
  /\ mOut = Raise(NoDocument)
  /\ EntryIdle

MapBuild ==
  /\ mPc = "input"
  /\ mOut' = build_search_document(mIn, clock)
  /\ mPc' = "done"
  /\ UNCHANGED <<pipeVars, mIn, entryVars>>

MapNext == MapBuild

MapSpec == MapInit /\ [][MapNext]_vars

(***************************************************************************)
(* The transcript entries the loop of _extract_transcript_entries and the  *)
(* timestamp parser are applied to on their own.  The raw start of the     *)
(* first instance is built from colon-delimited components.                *)
(***************************************************************************)
MaxParts == 4

\* One component of a time string: empty, not a number, or a number.
TimeComponents == {<<>>, <<"x">>, <<"2">>, <<"1", ".", "5">>}

TimeParts == UNION {[1..n -> TimeComponents] : n \in 1..MaxParts}

T_0_03 == <<"0", ":", "0", "3">>

\* instances[0]["start"]: absent, None, or the components joined by colons.
RawStart(parts, kind) ==
  IF kind = "val" THEN Val(Join(<<":">>, parts))
  ELSE IF kind = "null" THEN Null(<<>>) ELSE Absent(<<>>)

AdjustedStartMembers == {Absent(<<>>), Null(<<>>), Val(T_0_03), Val(T_bad)}

EndMembers ==
  {[end |-> Val(T_0_00_02_5), adjustedEnd |-> Absent(<<>>)],
   [end |-> Val(T_bad), adjustedEnd |-> Val(T_0_00_02_5)],
   [end |-> Absent(<<>>), adjustedEnd |-> Val(T_0_02)],
   [end |-> Absent(<<>>), adjustedEnd |-> Absent(<<>>)],
   [end |-> Val(T_bad), adjustedEnd |-> Absent(<<>>)]}

\* A later instance of the same entry, with timestamps of its own.
LaterInstance ==
  [start |-> Val(T_0_00_01_0), adjustedStart |-> Val(T_0_00_01_0),
   end |-> Val(T_0_00_01_0), adjustedEnd |-> Val(T_0_00_01_0)]

EntryWith(start, adjustedStart, ends, later) ==
  [text |-> Val(<<"a">>),
   instances |-> Val(<<[start |-> start, adjustedStart |-> adjustedStart,
                        end |-> ends.end, adjustedEnd |-> ends.adjustedEnd]>>
                     \o later),
   speakerId |-> Val(1), confidence |-> Absent(0)]

EntryInit ==
  /\ PipeInit
  /\ searchConfigured = TRUE
  /\ MapIdle
  /\ ePc = "input"
  /\ tPc = "input"
  /\ eParts \in TimeParts \cup {<<>>}
  /\ \E kind \in IF eParts = <<>> THEN {"absent", "null"} ELSE {"val"},
        adjustedStart \in AdjustedStartMembers,
        ends \in EndMembers,
        later \in {<<>>, <<LaterInstance>>} :
       eIn = EntryWith(RawStart(eParts, kind), adjustedStart, ends, later)
  /\ eOut = <<>>
  /\ tOut = Null(0)

\* _time_to_seconds(instances[0].get("start"))
ParseTime ==
  /\ tPc = "input"
  /\ tOut' = _time_to_seconds(Get(eIn.instances.v[1].start))
  /\ tPc' = "done"
  /\ UNCHANGED <<pipeVars, mapVars, ePc, eParts, eIn, eOut>>

\* The loop of _extract_transcript_entries over the one entry.
ExtractEntry ==
  /\ ePc = "input"
  /\ eOut' = ExtractLoop(<<eIn>>)
  /\ ePc' = "done"
  /\ UNCHANGED <<pipeVars, mapVars, tPc, eParts, eIn, tOut>>

EntryNext == ParseTime \/ ExtractEntry

EntrySpec == EntryInit /\ [][EntryNext]_vars

(***************************************************************************)
(* Part IV.  The properties.                                               *)
(***************************************************************************)
\* Run r made the call op (whatever its outcome).
Occurred(r, op) == \E i \in 1..Len(calls[r]) : calls[r][i].op = op

\* Run r made the call op and it failed.
FailedCall(r, op) == \E i \in 1..Len(calls[r]) : calls[r][i] = [op |-> op, ok |-> FALSE]

\* The steps of the ingestion sequence: submit, poll, fetch and map, publish.
SequenceSteps ==
  <<"file_upload", "wait_for_index", "get_video", "build_search_document",
    "upload_documents">>

StepIndex(op) == CHOOSE i \in 1..Len(SequenceSteps) : SequenceSteps[i] = op

IsSequenceStep(op) == \E i \in 1..Len(SequenceSteps) : SequenceSteps[i] = op

\* C1: within one run, submit precedes poll precedes fetch and map precedes
\* publish: whenever a step of the sequence is called, every earlier step of
\* the sequence has been called before it in that run and has completed.
C1_StrictSequence ==
  \A r \in Runs : \A j \in 1..Len(calls[r]) :
    IsSequenceStep(calls[r][j].op) =>
      \A e \in 1..(StepIndex(calls[r][j].op) - 1) :
        \E i \in 1..(j - 1) : calls[r][i] = [op |-> SequenceSteps[e], ok |-> TRUE]

\* A run that went through the whole sequence and published.
C1_Witness ==
  \E r \in Runs : outcome[r] = "completed" /\ published[r] = "true"
                  /\ Len(calls[r]) = Len(CallOrder)

\* C2: a trigger whose lower-cased extension is not a video extension makes the
\* run end at once, normally, with no call made, no temporary file opened or
\* linked, no job submitted and nothing published.
C2_NonVideoIgnored ==
  \A r \in Runs :
    (pc[r] # "idle" /\ Lower(SplitExt(BlobName(blob[r]))) \notin VIDEO_EXTENSIONS) =>
      /\ pc[r] = "done"
      /\ outcome[r] = "skipped"
      /\ calls[r] = <<>>
      /\ handle[r] = 0
      /\ \A p \in TempPaths : path[p] # r
      /\ job[r] = "None"
      /\ published[r] = "none"

\* The run triggered by n.txt has ended.
C2_Witness ==
  \E r \in Runs : blob[r] = <<"n", ".", "t", "x", "t">> /\ pc[r] = "done"

\* C3: the insights fetch, the mapping and the publish happen only in a run
\* whose poll ended in Processed, and a run whose poll ended in Failed or
\* TimedOut ends in failure.
C3_PublishOnlyWhenProcessed ==
  \A r \in Runs :
    /\ (\/ Occurred(r, "get_video")
        \/ Occurred(r, "build_search_document")
        \/ Occurred(r, "upload_documents")
        \/ pc[r] \in {"get_video", "publish", "search_client", "upload_documents"}
        \/ published[r] # "none")
         => job[r] = "Processed"
    /\ (pc[r] = "done" /\ job[r] \in {"Failed", "TimedOut"}) => outcome[r] = "failed"

\* A run whose job the remote service reported Failed on the first status check
\* has ended.
C3_Witness ==
  \E r \in Runs : job[r] = "Failed" /\ elapsed[r] = 0 /\ pc[r] = "done"

\* C4: when a run that created its temporary file has ended, the file is gone.
C4_TempFileReleased ==
  \A r \in Runs :
    (pc[r] = "done" /\ handle[r] = r) => \A p \in TempPaths : path[p] # r

\* C5: no run writes, reads for upload or removes a temporary file that another
\* run created, when the runs were triggered by different objects.
C5_TempFilePrivate ==
  (\A r1, r2 \in Runs : r1 # r2 /\ pc[r1] # "idle" /\ pc[r2] # "idle" => blob[r1] # blob[r2])
    => foreign = {}

\* The last successful upsert of document d's video is the i-th one.
LatestPublish(i) ==
  \A j \in (i + 1)..Len(publishes) : publishes[j].videoId # publishes[i].videoId

\* C6: the index holds at most one document per video id, and for every video
\* published with success it holds the document of the latest publish, with
\* its indexedAt.
C6_IdempotentUpsert ==
  /\ \A d1, d2 \in index : d1.videoId = d2.videoId => d1 = d2
  /\ \A i \in 1..Len(publishes) :
       LatestPublish(i) =>
         \E d \in index : /\ d.videoId = publishes[i].videoId
                          /\ d.indexedAt = publishes[i].indexedAt

\* The same video id was published twice, with two indexedAt values, and the
\* index holds one document for it.
C6_Witness ==
  /\ Len(publishes) = 2
  /\ publishes[1].videoId = publishes[2].videoId
  /\ publishes[1].indexedAt # publishes[2].indexedAt
  /\ Cardinality(index) = 1

\* Run r entered upload_to_search_index.
EnteredPublish(r) == \E i \in 1..Len(calls[r]) : calls[r][i] = [op |-> "get_video", ok |-> TRUE]

\* C7: upload_to_search_index never raises: a run that entered it and has ended
\* ended normally with a returned value; the value is false after a failure of
\* the mapper, of the SearchClient construction or of the upsert call, and true
\* only when the one upsert call reported success.
C7_PublishNeverRaises ==
  \A r \in Runs :
    /\ (EnteredPublish(r) /\ pc[r] = "done")
         => outcome[r] = "completed" /\ published[r] \in {"true", "false"}
    /\ (pc[r] = "done" /\ (\/ FailedCall(r, "build_search_document")
                           \/ FailedCall(r, "SearchClient")
                           \/ FailedCall(r, "upload_documents")))
         => published[r] = "false"
    /\ published[r] = "true"
         => /\ calls[r][Len(calls[r])] = [op |-> "upload_documents", ok |-> TRUE]
            /\ Cardinality({i \in 1..Len(calls[r]) : calls[r][i].op = "upload_documents"}) = 1

\* One run whose mapper raised and one whose upsert call failed have both ended.
C7_Witness ==
  \E r1, r2 \in Runs :
    /\ pc[r1] = "done" /\ FailedCall(r1, "build_search_document")
    /\ pc[r2] = "done" /\ FailedCall(r2, "upload_documents")

\* C8: every run that submitted a job ends, having waited in the poll no longer
\* than the wait budget, and when its job was given up as TimedOut it ends in
\* failure with no publish call, whatever the remote service does.
C8_PollTerminates ==
  \A r \in Runs :
    (job[r] = "Submitted") ~>
      (/\ pc[r] = "done"
       /\ elapsed[r] <= MaxWait
       /\ job[r] = "TimedOut" => (outcome[r] = "failed" /\ ~Occurred(r, "upload_documents")))

\* A run whose job never left Processing was given up as TimedOut and has ended.
C8_Witness ==
  \E r \in Runs : /\ job[r] = "TimedOut" /\ remote[r] = "Processing"
                  /\ elapsed[r] >= MaxWait /\ pc[r] = "done"

\* The transcript of the input is not None (a null transcript is not among the
\* anomalies of C9).
TranscriptNotNull(j) ==
  (TruthySeq(j.videos) /\ j.videos.v[1].insights.k = "val")
    => j.videos.v[1].insights.v.transcript.k # "null"

\* C9: on an input whose videos, first video's insights, summarizedInsights,
\* summarized duration or entry instances are absent, null or empty,
\* build_search_document returns a document and does not raise.
C9_MapperNeverRaises ==
  (mPc = "done" /\ TranscriptNotNull(mIn)) => ~mOut.raised

\* The transcript entries of the first video (none when there is no first video,
\* no insights or no transcript).
FirstTranscript(j) ==
  IF /\ TruthySeq(j.videos)
     /\ j.videos.v[1].insights.k = "val"
     /\ j.videos.v[1].insights.v.transcript.k = "val"
  THEN j.videos.v[1].insights.v.transcript.v
  ELSE <<>>

CarriesText(e) == e.text.k = "val" /\ e.text.v # <<>>

TextsOf(entries) == [i \in 1..Len(entries) |-> entries[i].text.v]

C10_Expected(j) == TextsOf(SelectSeq(FirstTranscript(j), CarriesText))

\* C10: transcriptEntries are exactly the entries of the first video's
\* transcript that carry text, in order; transcript is the space-joined
\* concatenation of their texts, and the no-transcript value when there is
\* none; the mapper does not raise.
C10_TranscriptText ==
  mPc = "done" =>
    /\ ~mOut.raised
    /\ [i \in 1..Len(mOut.v.transcriptEntries) |-> mOut.v.transcriptEntries[i].text]
         = C10_Expected(mIn)
    /\ mOut.v.transcript = IF C10_Expected(mIn) = <<>> THEN Null(<<>>)
                           ELSE Val(Join(<<" ">>, C10_Expected(mIn)))

(***************************************************************************)
(* The timestamp parser and the timestamps of an entry.                    *)
(***************************************************************************)
\* The components that are numbers, and their values in milliseconds.
NumericComponents == {<<"2">>, <<"1", ".", "5">>}

ComponentMillis(c) == IF c = <<"2">> THEN 2000 ELSE 1500

\* An h:m:s, m:s or s string: one to three components, each a number.
ValidTimeParts(parts) ==
  /\ Len(parts) \in 1..3
  /\ \A i \in 1..Len(parts) : parts[i] \in NumericComponents

\* hours*3600 + minutes*60 + seconds, missing leading components being zero.
TotalMillis(parts) ==
  LET n == Len(parts)
      part(i) == IF i >= 1 THEN ComponentMillis(parts[i]) ELSE 0
  IN part(n - 2) * 3600 + part(n - 1) * 60 + part(n)

ExpectedSeconds(parts) ==
  IF ValidTimeParts(parts) THEN Val(TotalMillis(parts)) ELSE Null(0)

\* The seconds of the fixed time strings of the entries.
KnownSeconds(s) ==
  IF s = T_0_03 THEN Val(3000)
  ELSE IF s = T_0_02 THEN Val(2000)
  ELSE IF s = T_0_00_02_5 THEN Val(2500)
  ELSE IF s = T_0_00_01_0 THEN Val(1000)
  ELSE Null(0)

FirstInstance == eIn.instances.v[1]

\* The one timestamp of a side that carries a single one (None when neither).
OnlyTimestamp(raw, adjusted) ==
  IF raw.k = "val" THEN raw ELSE IF adjusted.k = "val" THEN adjusted ELSE Null(<<>>)

OneTimestamp(raw, adjusted) == ~(raw.k = "val" /\ adjusted.k = "val")

\* C11: _time_to_seconds returns hours*3600 + minutes*60 + seconds for every
\* valid h:m:s, m:s or s string, and None, without raising, for every malformed
\* string (a component that is not a number, an empty component, more than
\* three components) and for None; in an entry, a side that fails to parse is
\* omitted alone: the entry is kept and the other side keeps its value.
C11_TimeParser ==
  /\ tPc = "done" =>
       tOut = (IF eParts = <<>> THEN Null(0) ELSE ExpectedSeconds(eParts))
  /\ ePc = "done" =>
       /\ Len(eOut) = 1
       /\ eOut[1].text = <<"a">>
       /\ (eParts # <<>> /\ FirstInstance.adjustedStart.k # "val") =>
            eOut[1].startSeconds = OutField(ExpectedSeconds(eParts))
       /\ OneTimestamp(FirstInstance.end, FirstInstance.adjustedEnd) =>
            eOut[1].endSeconds =
              OutField(IF IsNone(OnlyTimestamp(FirstInstance.end, FirstInstance.adjustedEnd))
                       THEN Null(0)
                       ELSE KnownSeconds(OnlyTimestamp(FirstInstance.end,
                                                       FirstInstance.adjustedEnd).v))

\* C12: the timestamps of an entry come from its first instance, and when that
\* instance carries both an adjusted and a raw timestamp of a side, the
\* adjusted one gives startSeconds / endSeconds (which is omitted when the
\* adjusted one does not parse).
C12_AdjustedPreferred ==
  ePc = "done" =>
    /\ Len(eOut) = 1
    /\ (FirstInstance.start.k = "val" /\ FirstInstance.adjustedStart.k = "val") =>
         eOut[1].startSeconds = OutField(KnownSeconds(FirstInstance.adjustedStart.v))
    /\ (FirstInstance.end.k = "val" /\ FirstInstance.adjustedEnd.k = "val") =>
         eOut[1].endSeconds = OutField(KnownSeconds(FirstInstance.adjustedEnd.v))
    /\ (FirstInstance.start.k # "val" /\ FirstInstance.adjustedStart.k # "val") =>
         eOut[1].startSeconds.k = "absent"
    /\ (FirstInstance.end.k # "val" /\ FirstInstance.adjustedEnd.k # "val") =>
         eOut[1].endSeconds.k = "absent"

(***************************************************************************)
(* The duration and the speaker count of the document.                     *)
(***************************************************************************)
\* summarizedInsights.duration.seconds of the raw insights (None when any level
\* is missing).
NestedSeconds(index_json) ==
  IF index_json.summarizedInsights.k # "val" THEN Null(0)
  ELSE IF index_json.summarizedInsights.v.duration.k # "val" THEN Null(0)
  ELSE Get(index_json.summarizedInsights.v.duration.v.seconds)

\* C13: the duration of a returned document is durationInSeconds whenever that
\* field is present in the raw insights, a value of 0 included, and is
\* summarizedInsights.duration.seconds only when the field is absent.
C13_Duration ==
  (mPc = "done" /\ ~mOut.raised) =>
    mOut.v.duration = (IF mIn.durationInSeconds.k # "absent"
                       THEN mIn.durationInSeconds
                       ELSE NestedSeconds(mIn))

\* The speakers reported in the first video's insights (none when any level is
\* missing).
ReportedSpeakers(index_json) ==
  IF index_json.videos.k # "val" THEN <<>>
  ELSE IF index_json.videos.v = <<>> THEN <<>>
  ELSE IF index_json.videos.v[1].insights.k # "val" THEN <<>>
  ELSE IF index_json.videos.v[1].insights.v.speakers.k # "val" THEN <<>>
  ELSE index_json.videos.v[1].insights.v.speakers.v

\* C14: the speakerCount of a returned document is the number of distinct
\* speakers reported in the first video's insights, zero when none are
\* reported; a speaker reported more than once counts once.
C14_SpeakerCount ==
  (mPc = "done" /\ ~mOut.raised) =>
    mOut.v.speakerCount =
      Cardinality({ReportedSpeakers(mIn)[i] : i \in 1..Len(ReportedSpeakers(mIn))})

====
